---- MODULE Spec2Model ----
(***************************************************************************)
(* Model of app.py, the alumni portal: public submission of records,      *)
(* registration / login, the admin moderation API (pending, approved,     *)
(* approve, get, edit, delete) and the export of approved records.        *)
(*                                                                         *)
(* Text is modelled as sequences of one-character strings so that         *)
(* str.strip, str.lower, secure_filename, LIKE and ORDER BY are computed   *)
(* the way the code computes them.  Every request handler is one action;  *)
(* the response of the last request is kept in the variable resp.         *)
(***************************************************************************)
EXTENDS Naturals, Sequences, FiniteSets

VARIABLES
    users,      \* table users: sequence of rows, users[i].id = i
    alumni,     \* table alumni: set of rows with distinct ids
    nextId,     \* next AUTOINCREMENT id of table alumni
    files,      \* names of the files in UPLOAD_FOLDER
    session,    \* the client's session cookie: NoSession or [user_id, username]
    clock,      \* current reading of the clock (os.times()[4], CURRENT_TIMESTAMP)
    envAdmin,   \* ENV_ADMIN, read once from the environment at start
    resp,       \* the last request handled and its response
    threads     \* the requests in flight: each worker's position and locals

vars == <<users, alumni, nextId, files, session, clock, envAdmin, resp, threads>>

(***************************************************************************)
(* Bounds of the model.                                                    *)
(***************************************************************************)
MaxRecords == 2     \* number of rows ever inserted into alumni
MaxClock == 1       \* the clock reads 0..MaxClock
MaxWorkers == 2     \* number of requests the server handles at a time

(***************************************************************************)
(* Characters and strings.                                                 *)
(***************************************************************************)
Whitespace == {" ", "\t"}

UpperToLower == [c \in {"A", "B", "J", "P", "G", "R"} |->
                    CASE c = "A" -> "a" [] c = "B" -> "b" [] c = "J" -> "j"
                      [] c = "P" -> "p" [] c = "G" -> "g" [] c = "R" -> "r"]

\* str.lower() on one character (ASCII letters of the model's alphabet).
LowerChar(c) == IF c \in DOMAIN UpperToLower THEN UpperToLower[c] ELSE c

lower(s) == [i \in 1..Len(s) |-> LowerChar(s[i])]

RECURSIVE lstrip(_, _)
lstrip(s, cs) == IF s # <<>> /\ Head(s) \in cs THEN lstrip(Tail(s), cs) ELSE s

RECURSIVE rstrip(_, _)
rstrip(s, cs) ==
    IF s # <<>> /\ s[Len(s)] \in cs THEN rstrip(SubSeq(s, 1, Len(s) - 1), cs) ELSE s

\* str.strip(chars)
stripChars(s, cs) == rstrip(lstrip(s, cs), cs)

\* A strip that removes nothing.
stripNothing(s) == s

\* str.strip(): surrounding whitespace removed
strip(s) == stripChars(s, Whitespace)

\* Code points of the characters used, for the BINARY collation of ORDER BY.
Ord(c) ==
    CASE c = "\t" -> 9 [] c = " " -> 32 [] c = "%" -> 37 [] c = "-" -> 45
      [] c = "." -> 46 [] c = "/" -> 47 [] c = "5" -> 53 [] c = "A" -> 65
      [] c = "B" -> 66 [] c = "G" -> 71 [] c = "J" -> 74 [] c = "P" -> 80
      [] c = "R" -> 82 [] c = "_" -> 95 [] c = "a" -> 97 [] c = "b" -> 98
      [] c = "e" -> 101 [] c = "g" -> 103 [] c = "j" -> 106 [] c = "m" -> 109
      [] c = "p" -> 112 [] c = "r" -> 114 [] c = "x" -> 120

\* memcmp order of two strings: s sorts before or equal to t
RECURSIVE BinaryLeq(_, _)
BinaryLeq(s, t) ==
    IF s = <<>> THEN TRUE
    ELSE IF t = <<>> THEN FALSE
    ELSE IF Head(s) = Head(t) THEN BinaryLeq(Tail(s), Tail(t))
    ELSE Ord(Head(s)) < Ord(Head(t))

(***************************************************************************)
(* Uploaded files: allowed_file, secure_filename and the stored key.       *)
(***************************************************************************)
ALLOWED_EXT == { <<"p", "n", "g">>, <<"j", "p", "g">>,
                 <<"j", "p", "e", "g">>, <<"g", "i", "f">> }

\* filename.rsplit(".", 1)[1]: what follows the last "."
RECURSIVE AfterLastDot(_)
AfterLastDot(s) ==
    IF "." \in {Tail(s)[i] : i \in 1..Len(Tail(s))} THEN AfterLastDot(Tail(s))
    ELSE IF Head(s) = "." THEN Tail(s)
    ELSE AfterLastDot(Tail(s))

\* allowed_file without the test of the extension.
allowed_file_any(filename) == "." \in {filename[i] : i \in 1..Len(filename)}

allowed_file(filename) ==
    /\ "." \in {filename[i] : i \in 1..Len(filename)}
    /\ lower(AfterLastDot(filename)) \in ALLOWED_EXT

\* "_".join(s.split()): whitespace runs become one "_", none at the ends
RECURSIVE JoinRuns(_)
JoinRuns(s) ==
    IF s = <<>> THEN <<>>
    ELSE IF Head(s) \in Whitespace
         THEN IF Tail(s) # <<>> /\ Head(Tail(s)) \in Whitespace
              THEN JoinRuns(Tail(s))
              ELSE <<"_">> \o JoinRuns(Tail(s))
         ELSE <<Head(s)>> \o JoinRuns(Tail(s))

\* [A-Za-z0-9_.-]
SafeChar(c) ==
    c \in {"a", "b", "e", "g", "j", "m", "p", "r", "x", "A", "B", "G", "J", "P", "R",
           "5", "_", ".", "-"}

\* werkzeug.utils.secure_filename on an ASCII name
secure_filename(filename) ==
    LET spaced == [i \in 1..Len(filename) |->
                      IF filename[i] = "/" THEN " " ELSE filename[i]]
        joined == JoinRuns(strip(spaced))
    IN  stripChars(SelectSeq(joined, SafeChar), {".", "_"})

NoPhoto == <<>>     \* photo_filename = ""

\* f"{int(os.times()[4]*1000)}_{filename}"
StoredKey(t, filename) == <<t, "_">> \o filename

(***************************************************************************)
(* Requests: the values the client can send.                               *)
(***************************************************************************)
\* The text fields of a form or JSON body (a missing field reads as ""):
\* a complete form with padding, one with a blank name, one with a blank phone.
Forms ==
    { [fullName |-> <<" ", "a", "B", "\t">>, phone |-> <<" ", "5">>,
       neighborhood |-> <<"R", " ">>],
      [fullName |-> <<"\t">>, phone |-> <<"5">>, neighborhood |-> <<>>],
      [fullName |-> <<"B">>, phone |-> <<" ">>, neighborhood |-> <<>>] }

\* The photo part of a request: absent, sent without a file name (no file
\* chosen), or a file with its name as the client gives it.
NoUpload == [present |-> FALSE, filename |-> <<>>]
Uploads ==
    {NoUpload} \cup
    { [present |-> TRUE, filename |-> f] :
        f \in { <<>>,
                <<"/", "a", ".", "J", "P", "G">>,
                <<"m", ".", "e", "x", "e">>,
                <<"j", "p", "g">> } }

RawUsernames == { <<>>, <<"a">>, <<"b", " ">> }
NewPasswords == { <<>>, <<"p">> }    \* passwords chosen at registration
TypedPasswords == { <<"p">>, <<"x">> }  \* passwords typed at login
EnvAdmins == { <<>>, <<"b">> }      \* unset, or the override username
Queries == { <<>>, <<" ">>, <<"b">>, <<"A">>, <<"a", "b", " ">>, <<"_">>, <<"%">> }
Ids == 1..MaxRecords
Workers == 1..MaxWorkers

\* photo_file and photo_file.filename
HasPhoto(up) == up.present /\ up.filename # <<>>

(***************************************************************************)
(* Responses.                                                              *)
(***************************************************************************)
NoRow == [id |-> 0]
NoSession == [user_id |-> 0, username |-> <<>>]
\* A worker that handles no request.
NoRequest == [op |-> "idle"]

\* A response: status, body (the redirect's target, the JSON message, the page)
\* and flash are what the handler returns.  op and id name the request (the
\* handler, the id in its URL or the id it created); before is the row of that
\* id as the request found it and onDisk whether that row's photo file existed.
Response(op, status, body, flash, id, before) ==
    [op |-> op, status |-> status, body |-> body, flash |-> flash, id |-> id,
     before |-> before,
     onDisk |-> before.id # 0 /\ before.photo \in files]

\* No request is being answered.
Idle == Response("idle", 0, "", "", 0, NoRow)

\* redirect(url_for(to)), after flash(message)
Redirect(op, to, message, id) == Response(op, 302, to, message, id, NoRow)
\* jsonify(...), status
Json(op, status, message, id, before) == Response(op, status, message, "", id, before)

(***************************************************************************)
(* Tables.                                                                 *)
(***************************************************************************)
RowIds == {r.id : r \in alumni}

\* SELECT * FROM alumni WHERE id=?  (fetchone: the row, or NoRow for None)
SelectById(table, aid) ==
    IF \E r \in table : r.id = aid THEN CHOOSE r \in table : r.id = aid ELSE NoRow

\* SELECT ... FROM users WHERE username=?
UserByName(name) ==
    IF \E i \in 1..Len(users) : users[i].username = name
    THEN CHOOSE i \in 1..Len(users) : users[i].username = name
    ELSE 0

\* Insert with the moderation flag already set.
InsertApproved(table, id, fullName, phone, neighborhood, photo, now) ==
    table \cup { [id |-> id, fullName |-> fullName, phone |-> phone,
                  neighborhood |-> neighborhood, photo |-> photo,
                  approved |-> 1, created_at |-> now] }

\* INSERT INTO alumni (fullName, phone, neighborhood, photo, approved)
\* VALUES (?,?,?,?,0): id is the AUTOINCREMENT value, created_at the clock's
Insert(table, id, fullName, phone, neighborhood, photo, now) ==
    table \cup { [id |-> id, fullName |-> fullName, phone |-> phone,
                  neighborhood |-> neighborhood, photo |-> photo,
                  approved |-> 0, created_at |-> now] }

\* UpdateText that also empties the photo reference.
UpdateTextNullsPhoto(table, aid, fullName, phone, neighborhood) ==
    { IF r.id = aid
      THEN [r EXCEPT !.fullName = fullName, !.phone = phone,
                     !.neighborhood = neighborhood, !.photo = <<>>]
      ELSE r : r \in table }

\* UPDATE alumni SET fullName=?, phone=?, neighborhood=? WHERE id=?
UpdateText(table, aid, fullName, phone, neighborhood) ==
    { IF r.id = aid
      THEN [r EXCEPT !.fullName = fullName, !.phone = phone,
                     !.neighborhood = neighborhood]
      ELSE r : r \in table }

\* An update that also sends the record back to moderation.
UpdateAllUnapproves(table, aid, fullName, phone, neighborhood, photo) ==
    { IF r.id = aid
      THEN [r EXCEPT !.fullName = fullName, !.phone = phone,
                     !.neighborhood = neighborhood, !.photo = photo,
                     !.approved = 0]
      ELSE r : r \in table }

\* UPDATE alumni SET fullName=?, phone=?, neighborhood=?, photo=? WHERE id=?
UpdateAll(table, aid, fullName, phone, neighborhood, photo) ==
    { IF r.id = aid
      THEN [r EXCEPT !.fullName = fullName, !.phone = phone,
                     !.neighborhood = neighborhood, !.photo = photo]
      ELSE r : r \in table }

\* DELETE FROM alumni WHERE id=?
DeleteRow(table, aid) == {r \in table : r.id # aid}

\* photo_file.save(str(dest)): the file exists afterwards (an older one is overwritten)
Save(dir, name) == dir \cup {name}

\* An unlink that removes nothing.
UnlinkNothing(dir, name) == dir

\* (UPLOAD_FOLDER / name).unlink(), FileNotFoundError passed over
Unlink(dir, name) == dir \ {name}

generate_password_hash(password) == <<"hash">> \o password
check_password_hash(hash, password) == hash = generate_password_hash(password)

Init ==
    /\ users = <<>>
    /\ alumni = {}
    /\ nextId = 1
    /\ files = {}
    /\ session = NoSession
    /\ clock = 0
    /\ envAdmin = <<>>             \* FLASK_ADMIN_USERNAME is not set
    /\ resp = Idle
    /\ threads = [w \in Workers |-> NoRequest]

\* The state after construction when FLASK_ADMIN_USERNAME may be set.
InitEnv ==
    /\ users = <<>>
    /\ alumni = {}
    /\ nextId = 1
    /\ files = {}
    /\ session = NoSession
    /\ clock = 0
    /\ envAdmin \in EnvAdmins
    /\ resp = Idle
    /\ threads = [w \in Workers |-> NoRequest]

\* Time passes between requests; two requests may also read the same clock value.
Tick ==
    /\ resp = Idle
    /\ clock < MaxClock
    /\ clock' = clock + 1
    /\ UNCHANGED <<users, alumni, nextId, files, session, envAdmin, resp, threads>>

(***************************************************************************)
(* POST /submit                                                            *)
(***************************************************************************)
submit(form, up) ==
    LET fullName == strip(form.fullName)
        phone == strip(form.phone)
        neighborhood == strip(form.neighborhood)
    IN  /\ resp = Idle
        /\ nextId <= MaxRecords
        /\ UNCHANGED <<users, session, clock, envAdmin, threads>>
        /\ IF fullName = <<>> \/ phone = <<>>
           THEN /\ resp' = Redirect("submit", "submit", "Name and phone required.", 0)
                /\ UNCHANGED <<alumni, nextId, files>>
           ELSE IF HasPhoto(up) /\ ~allowed_file(up.filename)
           THEN /\ resp' = Redirect("submit", "submit", "File type not allowed.", 0)
                /\ UNCHANGED <<alumni, nextId, files>>
           ELSE LET photo_filename ==
                        IF HasPhoto(up)
                        THEN StoredKey(clock, secure_filename(up.filename))
                        ELSE NoPhoto
                IN  /\ files' = IF HasPhoto(up) THEN Save(files, photo_filename)
                                ELSE files
                    /\ alumni' = Insert(alumni, nextId, fullName, phone, neighborhood,
                                        photo_filename, clock)
                    /\ nextId' = nextId + 1
                    /\ resp' = Redirect("submit", "thankyou", "", nextId)

(***************************************************************************)
(* GET /thankyou?id=<aid>                                                  *)
(***************************************************************************)
thankyou(aid) ==
    LET row == SelectById(alumni, aid)
    IN  /\ resp = Idle
        /\ resp' = IF aid = 0 \/ row = NoRow
                   THEN Redirect("thankyou", "submit", "", aid)
                   ELSE Response("thankyou", 200, "thankyou", "", aid, NoRow)
        /\ UNCHANGED <<users, alumni, nextId, files, session, clock, envAdmin, threads>>

(***************************************************************************)
(* POST /register, POST /login, GET /logout                                *)
(***************************************************************************)
\* The bootstrap rule without the override.
BootstrapAdminFirstOnly(username) == IF Len(users) = 0 THEN 1 ELSE 0

\* The bootstrap rule of register: is_admin of the row to insert.
BootstrapAdmin(username) ==
    IF envAdmin # <<>> /\ username = envAdmin THEN 1
    ELSE IF Len(users) = 0 THEN 1
    ELSE 0

register(un, pw) ==
    LET username == strip(un)
    IN  /\ resp = Idle
        /\ UNCHANGED <<alumni, nextId, files, session, clock, envAdmin, threads>>
        /\ IF username = <<>> \/ pw = <<>>
           THEN /\ resp' = Redirect("register", "register",
                                    "Username and password required.", 0)
                /\ UNCHANGED users
           ELSE IF UserByName(username) # 0        \* sqlite3.IntegrityError
           THEN /\ resp' = Redirect("register", "register", "Username already taken.", 0)
                /\ UNCHANGED users
           ELSE /\ users' = Append(users,
                      [id |-> Len(users) + 1, username |-> username,
                       password_hash |-> generate_password_hash(pw),
                       is_admin |-> BootstrapAdmin(username)])
                /\ resp' = Redirect("register", "login",
                                    "Account created. Please login.", Len(users) + 1)

login(un, pw) ==
    LET username == strip(un)
        uid == UserByName(username)
    IN  /\ resp = Idle
        /\ UNCHANGED <<users, alumni, nextId, files, clock, envAdmin, threads>>
        /\ IF uid # 0 /\ check_password_hash(users[uid].password_hash, pw)
           THEN /\ session' = [user_id |-> uid, username |-> username]
                /\ resp' = Redirect("login", "dashboard", "", uid)
           ELSE /\ resp' = Redirect("login", "login", "Invalid username or password", 0)
                /\ UNCHANGED session

logout ==
    /\ resp = Idle
    /\ session' = NoSession
    /\ resp' = Redirect("logout", "login", "", 0)
    /\ UNCHANGED <<users, alumni, nextId, files, clock, envAdmin, threads>>

(***************************************************************************)
(* admin_required                                                          *)
(***************************************************************************)
\* row and row["is_admin"] == 1, for the row of users with id uid
IsAdminRow(uid) == uid \in 1..Len(users) /\ users[uid].is_admin = 1

\* A decorator that lets every logged-in user pass.
AdminGateLoginOnly == IF session.user_id = 0 THEN "anonymous" ELSE "pass"

\* What the decorator decides for the session of the request.
AdminGate ==
    IF session.user_id = 0 THEN "anonymous"
    ELSE IF ~IsAdminRow(session.user_id) THEN "denied"
    ELSE "pass"

\* The redirect the decorator returns when it does not call the handler.
GateResponse(op, aid) ==
    IF AdminGate = "anonymous" THEN Redirect(op, "login", "", aid)
    ELSE Redirect(op, "login", "Access denied: admin only.", aid)

\* The decorated view: the decorator's redirect, or the handler's own step.
admin_required(op, aid, Handler) ==
    /\ resp = Idle
    /\ UNCHANGED threads
    /\ IF AdminGate = "pass"
       THEN Handler
       ELSE /\ resp' = GateResponse(op, aid)
            /\ UNCHANGED <<users, alumni, nextId, files, session, clock, envAdmin>>

(***************************************************************************)
(* Listings: GET /api/admin/pending, GET /api/admin/approved?q=            *)
(***************************************************************************)
\* The arrangements of `rows` in a sequence, each row once.
Arrangements(rows) ==
    { s \in [1..Cardinality(rows) -> rows] :
        \A i, j \in DOMAIN s : i # j => s[i] # s[j] }

\* s LIKE pattern, without ESCAPE: % any run, _ any one character, ASCII
\* letters compared without case.
RECURSIVE Like(_, _)
Like(s, pattern) ==
    IF pattern = <<>> THEN s = <<>>
    ELSE IF Head(pattern) = "%"
         THEN Like(s, Tail(pattern)) \/ (s # <<>> /\ Like(Tail(s), pattern))
         ELSE /\ s # <<>>
              /\ Head(pattern) = "_" \/ LowerChar(Head(pattern)) = LowerChar(Head(s))
              /\ Like(Tail(s), Tail(pattern))

\* ORDER BY created_at, ascending.
OldestFirst(r1, r2) == r1.created_at <= r2.created_at

\* ORDER BY created_at DESC
NewestFirst(r1, r2) == r1.created_at >= r2.created_at
\* ORDER BY fullName
ByFullName(r1, r2) == BinaryLeq(r1.fullName, r2.fullName)

\* The bodies api_pending may return.
PendingRows ==
    { s \in Arrangements({r \in alumni : r.approved = 0}) :
        \A i, j \in DOMAIN s : i < j => NewestFirst(s[i], s[j]) }

\* The rows api_approved selects for the query string q.
ApprovedMatching(q) ==
    LET query == strip(q)
    IN  IF query # <<>>
        THEN {r \in alumni :
                r.approved = 1 /\ Like(r.fullName, <<"%">> \o query \o <<"%">>)}
        ELSE {r \in alumni : r.approved = 1}

\* The bodies api_approved may return for q.
ApprovedRows(q) ==
    { s \in Arrangements(ApprovedMatching(q)) :
        \A i, j \in DOMAIN s : i < j => ByFullName(s[i], s[j]) }

\* The handler answers with one of PendingRows.
api_pending ==
    /\ resp' = Json("pending", 200, "rows", 0, NoRow)
    /\ UNCHANGED <<users, alumni, nextId, files, session, clock, envAdmin>>

\* The handler answers with one of ApprovedRows(q).
api_approved(q) ==
    /\ resp' = Json("approved", 200, "rows", 0, NoRow)
    /\ UNCHANGED <<users, alumni, nextId, files, session, clock, envAdmin>>

(***************************************************************************)
(* POST /api/admin/approve/<aid>                                           *)
(***************************************************************************)
\* SetApproved that flips the flag instead of setting it.
SetApprovedToggle(table, aid) ==
    { IF r.id = aid THEN [r EXCEPT !.approved = 1 - r.approved] ELSE r : r \in table }

\* UPDATE alumni SET approved=1 WHERE id=?
SetApproved(table, aid) ==
    { IF r.id = aid THEN [r EXCEPT !.approved = 1] ELSE r : r \in table }

api_approve(aid) ==
    /\ alumni' = SetApproved(alumni, aid)
    /\ resp' = Json("approve", 200, "approved", aid, SelectById(alumni, aid))
    /\ UNCHANGED <<users, nextId, files, session, clock, envAdmin>>

(***************************************************************************)
(* GET | DELETE | PUT /api/admin/<aid>                                     *)
(***************************************************************************)
\* The handler answers 404, or with the row SelectById(alumni, aid).
api_admin_item_get(aid) ==
    /\ resp' = IF SelectById(alumni, aid) = NoRow
               THEN Json("get", 404, "Not found", aid, NoRow)
               ELSE Json("get", 200, "row", aid, NoRow)
    /\ UNCHANGED <<users, alumni, nextId, files, session, clock, envAdmin>>

api_admin_item_delete(aid) ==
    LET row == SelectById(alumni, aid)
    IN  /\ files' = IF row # NoRow /\ row.photo # NoPhoto
                    THEN Unlink(files, row.photo) ELSE files
        /\ alumni' = DeleteRow(alumni, aid)
        /\ resp' = Json("delete", 200, "deleted", aid, row)
        /\ UNCHANGED <<users, nextId, session, clock, envAdmin>>

\* PUT with content type multipart/form-data
api_admin_item_put_form(aid, form, up) ==
    LET fullName == strip(form.fullName)
        phone == strip(form.phone)
        neighborhood == strip(form.neighborhood)
        old == SelectById(alumni, aid)
    IN  /\ UNCHANGED <<users, nextId, session, clock, envAdmin>>
        /\ IF HasPhoto(up) /\ ~allowed_file(up.filename)
           THEN /\ resp' = Json("put", 400, "File type not allowed", aid, old)
                /\ UNCHANGED <<alumni, files>>
           ELSE IF HasPhoto(up)
           THEN LET photo_filename == StoredKey(clock, secure_filename(up.filename))
                    saved == Save(files, photo_filename)
                IN  /\ files' = IF old # NoRow /\ old.photo # NoPhoto
                                THEN Unlink(saved, old.photo) ELSE saved
                    /\ alumni' = UpdateAll(alumni, aid, fullName, phone,
                                           neighborhood, photo_filename)
                    /\ resp' = Json("put", 200, "updated", aid, old)
           ELSE /\ alumni' = UpdateText(alumni, aid, fullName, phone, neighborhood)
                /\ files' = files
                /\ resp' = Json("put", 200, "updated", aid, old)

\* PUT with any other content type: a JSON body
api_admin_item_put_json(aid, data) ==
    /\ alumni' = UpdateText(alumni, aid, strip(data.fullName), strip(data.phone),
                            strip(data.neighborhood))
    /\ resp' = Json("put", 200, "updated", aid, SelectById(alumni, aid))
    /\ UNCHANGED <<users, nextId, files, session, clock, envAdmin>>

(***************************************************************************)
(* GET /download                                                           *)
(***************************************************************************)
\* The export reading every row, approved or not.
ExportRowsAll ==
    { s \in Arrangements(alumni) :
        \A i, j \in DOMAIN s : i < j => ByFullName(s[i], s[j]) }

\* The orders in which download_zip may read the approved rows.
ExportRows ==
    { s \in Arrangements({r \in alumni : r.approved = 1}) :
        \A i, j \in DOMAIN s : i < j => ByFullName(s[i], s[j]) }

\* alumni.csv below its header, for the rows in the order read
CsvTable(rows) ==
    [i \in DOMAIN rows |->
        <<rows[i].id, rows[i].fullName, rows[i].phone, rows[i].neighborhood,
          rows[i].photo>>]

\* The photos/ members written to the archive, for the rows in the order read
RECURSIVE ZipPhotos(_, _)
ZipPhotos(rows, dir) ==
    IF rows = <<>> THEN <<>>
    ELSE (IF Head(rows).photo # NoPhoto /\ Head(rows).photo \in dir
          THEN <<Head(rows).photo>> ELSE <<>>) \o ZipPhotos(Tail(rows), dir)

\* The handler answers with CsvTable(rows) and ZipPhotos(rows, files) for one
\* rows of ExportRows.
download_zip ==
    /\ resp' = Response("download", 200, "alumni_approved_export.zip", "", 0, NoRow)
    /\ UNCHANGED <<users, alumni, nextId, files, session, clock, envAdmin>>

\* The response is sent; the server takes the next request.
Deliver ==
    /\ resp # Idle
    /\ resp' = Idle
    /\ UNCHANGED <<users, alumni, nextId, files, session, clock, envAdmin, threads>>

Next ==
    \/ Deliver
    \/ Tick
    \/ \E form \in Forms, up \in Uploads : submit(form, up)
    \/ \E aid \in Ids \cup {0} : thankyou(aid)
    \/ \E un \in RawUsernames, pw \in NewPasswords : register(un, pw)
    \/ \E un \in RawUsernames, pw \in TypedPasswords : login(un, pw)
    \/ logout
    \/ admin_required("pending", 0, api_pending)
    \/ admin_required("approved", 0, \E q \in Queries : api_approved(q))
    \/ \E aid \in Ids : admin_required("approve", aid, api_approve(aid))
    \/ \E aid \in Ids : admin_required("get", aid, api_admin_item_get(aid))
    \/ \E aid \in Ids : admin_required("delete", aid, api_admin_item_delete(aid))
    \/ \E aid \in Ids :
          admin_required("put", aid,
              \E form \in Forms, up \in Uploads : api_admin_item_put_form(aid, form, up))
    \/ \E aid \in Ids :
          admin_required("put", aid,
              \E data \in Forms : api_admin_item_put_json(aid, data))
    \/ admin_required("download", 0, download_zip)

Spec == Init /\ [][Next]_vars

\* The same program started with or without FLASK_ADMIN_USERNAME.
SpecEnv == InitEnv /\ [][Next]_vars

(***************************************************************************)
(* Requests in flight.  The server handles requests on several threads, so *)
(* the statements of one handler interleave with those of another.  Each   *)
(* action below is one statement with an effect outside the handler (a     *)
(* file saved or unlinked, an SQL statement) of submit and of              *)
(* api_admin_item (DELETE, PUT with a photo); threads[w] holds the         *)
(* handler's position and its local variables.  A response is delivered    *)
(* before the next statement runs, which orders no effect on the stores.   *)
(***************************************************************************)
\* The forms and uploads sent in these requests: valid text, an allowed photo.
StepForms == {f \in Forms : strip(f.fullName) # <<>> /\ strip(f.phone) # <<>>}
StepUploads == {u \in Uploads : ~HasPhoto(u) \/ allowed_file(u.filename)}
StepUsernames == {<<"a">>}
StepPasswords == {<<"p">>}

\* A request in flight: pc names the statement it runs next.
Request(op, pc, aid, fullName, phone, neighborhood, photo, old) ==
    [op |-> op, pc |-> pc, aid |-> aid, fullName |-> fullName, phone |-> phone,
     neighborhood |-> neighborhood, photo |-> photo, old |-> old]

\* The submissions saved but not yet inserted.
Inserting == {w \in Workers : threads[w].op = "submit"}

\* submit up to photo_file.save(str(dest))
submit_save(w, form, up) ==
    LET photo_filename ==
            IF HasPhoto(up) THEN StoredKey(clock, secure_filename(up.filename))
            ELSE NoPhoto
    IN  /\ resp = Idle
        /\ threads[w] = NoRequest
        /\ nextId + Cardinality(Inserting) <= MaxRecords
        /\ files' = IF HasPhoto(up) THEN Save(files, photo_filename) ELSE files
        /\ threads' = [threads EXCEPT ![w] =
              Request("submit", "insert", 0, strip(form.fullName), strip(form.phone),
                      strip(form.neighborhood), photo_filename, NoPhoto)]
        /\ UNCHANGED <<users, alumni, nextId, session, clock, envAdmin, resp>>

\* submit: INSERT INTO alumni, and the redirect
submit_insert(w) ==
    LET t == threads[w]
    IN  /\ resp = Idle
        /\ t.op = "submit" /\ t.pc = "insert"
        /\ alumni' = Insert(alumni, nextId, t.fullName, t.phone, t.neighborhood,
                            t.photo, clock)
        /\ nextId' = nextId + 1
        /\ threads' = [threads EXCEPT ![w] = NoRequest]
        /\ UNCHANGED <<users, files, session, clock, envAdmin, resp>>

\* DELETE: admin_required and SELECT photo FROM alumni WHERE id=?
delete_select(w, aid) ==
    LET row == SelectById(alumni, aid)
    IN  /\ resp = Idle
        /\ threads[w] = NoRequest
        /\ AdminGate = "pass"
        /\ threads' = [threads EXCEPT ![w] =
              Request("delete", "unlink", aid, <<>>, <<>>, <<>>, NoPhoto,
                      IF row = NoRow THEN NoPhoto ELSE row.photo)]
        /\ UNCHANGED <<users, alumni, nextId, files, session, clock, envAdmin, resp>>

\* DELETE: (UPLOAD_FOLDER / row["photo"]).unlink() if the row has a photo
delete_unlink(w) ==
    LET t == threads[w]
    IN  /\ resp = Idle
        /\ t.op = "delete" /\ t.pc = "unlink"
        /\ files' = IF t.old # NoPhoto THEN Unlink(files, t.old) ELSE files
        /\ threads' = [threads EXCEPT ![w].pc = "delete"]
        /\ UNCHANGED <<users, alumni, nextId, session, clock, envAdmin, resp>>

\* DELETE: DELETE FROM alumni WHERE id=?, and the answer
delete_row(w) ==
    LET t == threads[w]
    IN  /\ resp = Idle
        /\ t.op = "delete" /\ t.pc = "delete"
        /\ alumni' = DeleteRow(alumni, t.aid)
        /\ threads' = [threads EXCEPT ![w] = NoRequest]
        /\ UNCHANGED <<users, nextId, files, session, clock, envAdmin, resp>>

\* PUT with a photo: admin_required up to photo_file.save(str(dest))
put_save(w, aid, form, up) ==
    LET photo_filename == StoredKey(clock, secure_filename(up.filename))
    IN  /\ resp = Idle
        /\ threads[w] = NoRequest
        /\ AdminGate = "pass"
        /\ HasPhoto(up)
        /\ files' = Save(files, photo_filename)
        /\ threads' = [threads EXCEPT ![w] =
              Request("put", "select", aid, strip(form.fullName), strip(form.phone),
                      strip(form.neighborhood), photo_filename, NoPhoto)]
        /\ UNCHANGED <<users, alumni, nextId, session, clock, envAdmin, resp>>

\* PUT with a photo: old = SELECT photo FROM alumni WHERE id=?
put_select(w) ==
    LET t == threads[w]
        row == SelectById(alumni, t.aid)
    IN  /\ resp = Idle
        /\ t.op = "put" /\ t.pc = "select"
        /\ threads' = [threads EXCEPT ![w].pc = "unlink",
                                      ![w].old = IF row = NoRow THEN NoPhoto
                                                 ELSE row.photo]
        /\ UNCHANGED <<users, alumni, nextId, files, session, clock, envAdmin, resp>>

\* PUT with a photo: (UPLOAD_FOLDER / old["photo"]).unlink() if there was one
put_unlink(w) ==
    LET t == threads[w]
    IN  /\ resp = Idle
        /\ t.op = "put" /\ t.pc = "unlink"
        /\ files' = IF t.old # NoPhoto THEN Unlink(files, t.old) ELSE files
        /\ threads' = [threads EXCEPT ![w].pc = "update"]
        /\ UNCHANGED <<users, alumni, nextId, session, clock, envAdmin, resp>>

\* PUT with a photo: UPDATE alumni SET ..., photo=? WHERE id=?, and the answer
put_update(w) ==
    LET t == threads[w]
    IN  /\ resp = Idle
        /\ t.op = "put" /\ t.pc = "update"
        /\ alumni' = UpdateAll(alumni, t.aid, t.fullName, t.phone, t.neighborhood,
                               t.photo)
        /\ threads' = [threads EXCEPT ![w] = NoRequest]
        /\ UNCHANGED <<users, nextId, files, session, clock, envAdmin, resp>>

NextSteps ==
    \/ Deliver
    \/ Tick
    \/ \E un \in StepUsernames, pw \in StepPasswords : register(un, pw)
    \/ \E un \in StepUsernames, pw \in StepPasswords : login(un, pw)
    \/ \E aid \in Ids : admin_required("approve", aid, api_approve(aid))
    \/ \E w \in Workers, form \in StepForms, up \in StepUploads : submit_save(w, form, up)
    \/ \E w \in Workers : submit_insert(w)
    \/ \E w \in Workers, aid \in Ids : delete_select(w, aid)
    \/ \E w \in Workers : delete_unlink(w)
    \/ \E w \in Workers : delete_row(w)
    \/ \E w \in Workers, aid \in Ids, form \in StepForms, up \in StepUploads :
          put_save(w, aid, form, up)
    \/ \E w \in Workers : put_select(w)
    \/ \E w \in Workers : put_unlink(w)
    \/ \E w \in Workers : put_update(w)

\* The program with its handlers running statement by statement on the
\* server's threads.
SpecSteps == Init /\ [][NextSteps]_vars

(***************************************************************************)
(* Registrations in flight.  register reads the number of users and        *)
(* inserts the new row in two statements; the transaction of the           *)
(* connection starts with the INSERT, so the statements of two             *)
(* registrations interleave.                                               *)
(***************************************************************************)
\* A registration that has computed is_admin and not yet inserted its row.
RegisterRequest(username, pw_hash, is_admin) ==
    [op |-> "register", pc |-> "insert", username |-> username,
     password_hash |-> pw_hash, is_admin |-> is_admin]

\* register up to the bootstrap rule (ENV_ADMIN, SELECT COUNT(*) FROM users)
register_read(w, un, pw) ==
    LET username == strip(un)
    IN  /\ resp = Idle
        /\ threads[w] = NoRequest
        /\ UNCHANGED <<users, alumni, nextId, files, session, clock, envAdmin>>
        /\ IF username = <<>> \/ pw = <<>>
           THEN /\ resp' = Redirect("register", "register",
                                    "Username and password required.", 0)
                /\ UNCHANGED threads
           ELSE /\ threads' = [threads EXCEPT ![w] =
                      RegisterRequest(username, generate_password_hash(pw),
                                      BootstrapAdmin(username))]
                /\ UNCHANGED resp

\* register: INSERT INTO users, and the redirect
register_insert(w) ==
    LET t == threads[w]
    IN  /\ resp = Idle
        /\ t.op = "register" /\ t.pc = "insert"
        /\ threads' = [threads EXCEPT ![w] = NoRequest]
        /\ UNCHANGED <<alumni, nextId, files, session, clock, envAdmin>>
        /\ IF UserByName(t.username) # 0        \* sqlite3.IntegrityError
           THEN /\ resp' = Redirect("register", "register", "Username already taken.", 0)
                /\ UNCHANGED users
           ELSE /\ users' = Append(users,
                      [id |-> Len(users) + 1, username |-> t.username,
                       password_hash |-> t.password_hash,
                       is_admin |-> t.is_admin])
                /\ resp' = Redirect("register", "login",
                                    "Account created. Please login.", Len(users) + 1)

NextRegister ==
    \/ Deliver
    \/ \E w \in Workers, un \in RawUsernames, pw \in NewPasswords : register_read(w, un, pw)
    \/ \E w \in Workers : register_insert(w)
    \/ \E un \in RawUsernames, pw \in TypedPasswords : login(un, pw)
    \/ logout

\* The accounts of the program, its registrations running statement by
\* statement on the server's threads.
SpecRegister == Init /\ [][NextRegister]_vars

(***************************************************************************)
(* Vocabulary of the properties.                                           *)
(***************************************************************************)
\* t is s without its surrounding whitespace (stated without strip).
IsTrimOf(t, s) ==
    /\ \E i \in 1..(Len(s) + 1), j \in 0..Len(s) :
          /\ t = SubSeq(s, i, j)
          /\ \A k \in 1..Len(s) : (k < i \/ k > j) => s[k] \in Whitespace
    /\ t # <<>> => t[1] \notin Whitespace /\ t[Len(t)] \notin Whitespace

\* The text fields of row are those of form, trimmed.
TextIs(row, form) ==
    /\ IsTrimOf(row.fullName, form.fullName)
    /\ IsTrimOf(row.phone, form.phone)
    /\ IsTrimOf(row.neighborhood, form.neighborhood)

\* get(id): the record api_admin_item (GET) and thankyou read.
Get(table, aid) == SelectById(table, aid)

\* The required fields of form are non-empty after trimming.
RequiredGiven(form) ==
    /\ \E i \in DOMAIN form.fullName : form.fullName[i] \notin Whitespace
    /\ \E i \in DOMAIN form.phone : form.phone[i] \notin Whitespace

\* The extension of filename is one of png, jpg, jpeg, gif (in any case).
ExtensionAllowed(filename) ==
    \E n \in 1..Len(filename) :
        /\ filename[n] = "."
        /\ \A k \in (n + 1)..Len(filename) : filename[k] # "."
        /\ lower(SubSeq(filename, n + 1, Len(filename))) \in ALLOWED_EXT

\* The submission created exactly one record, pending, holding the trimmed
\* fields of form, and answered with its id.
SubmitCreated(form) ==
    /\ resp'.status = 302 /\ resp'.body = "thankyou"
    /\ resp'.id \notin RowIds
    /\ alumni \subseteq alumni'
    /\ Cardinality(alumni') = Cardinality(alumni) + 1
    /\ LET row == Get(alumni', resp'.id)
       IN  /\ row # NoRow
           /\ row.approved = 0
           /\ TextIs(row, form)

(***************************************************************************)
(* C1 as stated: every submission whose fullName and phone are non-empty   *)
(* after trimming creates exactly one new record, and get of the returned  *)
(* id yields it with approved=false and the submitted fields trimmed.      *)
(* Fails: such a submission with a photo of a refused type creates none.   *)
(***************************************************************************)
C1_AnyValidTextCreates ==
    [][resp'.op = "submit" =>
        \A form \in Forms, up \in Uploads :
          (submit(form, up) /\ RequiredGiven(form)) => SubmitCreated(form)]_vars

(***************************************************************************)
(* C1 amended: every submission whose fullName and phone are non-empty     *)
(* after trimming and whose photo, if one is sent, has an allowed          *)
(* extension creates exactly one new record, and get of the returned id    *)
(* yields it with approved=false and the submitted fields trimmed.         *)
(***************************************************************************)
C1_ValidSubmitCreates ==
    [][resp'.op = "submit" =>
        \A form \in Forms, up \in Uploads :
          (/\ submit(form, up)
           /\ RequiredGiven(form)
           /\ HasPhoto(up) => ExtensionAllowed(up.filename))
          => SubmitCreated(form)]_vars

\* A padded submission with a photo was stored trimmed and pending.
C1_Witness ==
    /\ resp.op = "submit" /\ resp.body = "thankyou"
    /\ LET row == Get(alumni, resp.id)
       IN  /\ row # NoRow
           /\ row.fullName = <<"a", "B">> /\ row.phone = <<"5">>
           /\ row.neighborhood = <<"R">>
           /\ row.approved = 0
           /\ row.photo # NoPhoto

(***************************************************************************)
(* C2 as stated: an admin-only operation (pending, approved, approve, get, *)
(* edit, delete, export) invoked by a logged-in principal who is not an    *)
(* administrator is answered 403.                                          *)
(* Fails: admin_required answers 302, a redirect to the login page.        *)
(***************************************************************************)
AdminOps == {"pending", "approved", "approve", "get", "put", "delete", "download"}

C2_NonAdminForbidden ==
    (/\ resp.op \in AdminOps
     /\ session.user_id # 0
     /\ ~IsAdminRow(session.user_id))
    => resp.status = 403

(***************************************************************************)
(* C3: approve of an existing record answers success and leaves the record *)
(* approved with every other field as it was, the other records and the    *)
(* photo files untouched; on an already approved record it changes nothing *)
(* (the second call leaves the state the first one produced).              *)
(***************************************************************************)
C3_ApproveIdempotent ==
    [][(resp'.op = "approve" /\ AdminGate = "pass") =>
        \A aid \in {resp'.id} :
          (/\ Get(alumni, aid) # NoRow
           /\ admin_required("approve", aid, api_approve(aid)))
          => LET old == Get(alumni, aid)
                 new == Get(alumni', aid)
             IN  /\ resp'.status = 200 /\ resp'.body = "approved"
                 /\ new = [old EXCEPT !.approved = 1]
                 /\ alumni' \ {new} = alumni \ {old}
                 /\ files' = files
                 /\ old.approved = 1 => alumni' = alumni]_vars

\* An approve answered success on a record that was already approved.
C3_Witness ==
    /\ resp.op = "approve" /\ resp.status = 200
    /\ resp.before # NoRow
    /\ resp.before.approved = 1
    /\ Get(alumni, resp.id) = resp.before

(***************************************************************************)
(* C4: an edit of an existing record without a photo (a multipart body     *)
(* with no file, or a JSON body) sets the text fields to the given ones,   *)
(* trimmed, and leaves the record's photo reference, its other fields, the *)
(* other records and the photo files as they were.                         *)
(***************************************************************************)
EditedTextOnly(aid, form) ==
    LET old == Get(alumni, aid)
        new == Get(alumni', aid)
    IN  /\ resp'.status = 200 /\ resp'.body = "updated"
        /\ new # NoRow
        /\ TextIs(new, form)
        /\ new.photo = old.photo
        /\ new.approved = old.approved /\ new.created_at = old.created_at
        /\ alumni' \ {new} = alumni \ {old}
        /\ files' = files

C4_EditWithoutPhotoKeepsPhoto ==
    [][(resp'.op = "put" /\ AdminGate = "pass" /\ Get(alumni, resp'.id) # NoRow) =>
        \A aid \in {resp'.id}, form \in Forms :
          /\ \A up \in {u \in Uploads : ~HasPhoto(u)} :
                admin_required("put", aid, api_admin_item_put_form(aid, form, up))
                => EditedTextOnly(aid, form)
          /\ admin_required("put", aid, api_admin_item_put_json(aid, form))
             => EditedTextOnly(aid, form)]_vars

\* An edit changed the name of a record and left its photo, still on disk.
C4_Witness ==
    /\ resp.op = "put" /\ resp.status = 200
    /\ resp.before # NoRow
    /\ resp.before.photo # NoPhoto
    /\ resp.onDisk
    /\ LET row == Get(alumni, resp.id)
       IN  /\ row.photo = resp.before.photo
           /\ row.photo \in files
           /\ row.fullName # resp.before.fullName
(***************************************************************************)
(* C5 as stated: after an edit of an existing record with an allowed new   *)
(* photo, the record references the newly generated key, the file under    *)
(* that key exists, and the file under the record's previous key (if it    *)
(* had one) no longer exists.                                              *)
(* Fails: when the new key equals the previous one (same file name, same   *)
(* clock reading) the file just saved is the one unlinked.                 *)
(***************************************************************************)
AllowedUploads == {u \in Uploads : HasPhoto(u) /\ ExtensionAllowed(u.filename)}
RefusedUploads == {u \in Uploads : HasPhoto(u) /\ ~ExtensionAllowed(u.filename)}

C5_EditWithPhotoReplacesFile ==
    [][(resp'.op = "put" /\ AdminGate = "pass" /\ Get(alumni, resp'.id) # NoRow) =>
        \A aid \in {resp'.id}, form \in Forms, up \in AllowedUploads :
          admin_required("put", aid, api_admin_item_put_form(aid, form, up))
          => LET old == Get(alumni, aid)
                 new == Get(alumni', aid)
             IN  /\ resp'.status = 200
                 /\ new.photo = StoredKey(clock, secure_filename(up.filename))
                 /\ new.photo \in files'
                 /\ old.photo # NoPhoto => old.photo \notin files']_vars

(***************************************************************************)
(* C6: delete of an existing record answers success, removes that record   *)
(* and no other, and leaves the photo files as they were except that the   *)
(* record's photo file, if it referenced one, is gone; this also when the  *)
(* record has no photo or its file is already missing.                     *)
(***************************************************************************)
C6_DeleteRemovesRecordAndPhoto ==
    [][(resp'.op = "delete" /\ AdminGate = "pass" /\ Get(alumni, resp'.id) # NoRow) =>
        \A aid \in {resp'.id} :
          admin_required("delete", aid, api_admin_item_delete(aid))
          => LET old == Get(alumni, aid)
             IN  /\ resp'.status = 200 /\ resp'.body = "deleted"
                 /\ alumni' = alumni \ {old}
                 /\ Get(alumni', aid) = NoRow
                 /\ old.photo # NoPhoto => old.photo \notin files'
                 /\ files' \subseteq files
                 /\ files \ files' \subseteq {old.photo}]_vars

\* A record whose photo file was already missing was deleted without error.
C6_Witness ==
    /\ resp.op = "delete" /\ resp.status = 200
    /\ resp.before # NoRow
    /\ resp.before.photo # NoPhoto
    /\ ~resp.onDisk
    /\ resp.id \notin RowIds

(***************************************************************************)
(* C7 as stated: a submit or an edit carrying a photo whose extension is   *)
(* not allowed fails with InvalidFileType and leaves both stores unchanged.*)
(* Fails: a submit with a blank required field fails with the validation   *)
(* error instead, and an edit by a non-administrator with the redirect of  *)
(* admin_required.                                                         *)
(***************************************************************************)
StoresUnchanged == alumni' = alumni /\ nextId' = nextId /\ files' = files

SubmitInvalidFileType ==
    resp'.status = 302 /\ resp'.body = "submit" /\ resp'.flash = "File type not allowed."
EditInvalidFileType ==
    resp'.status = 400 /\ resp'.body = "File type not allowed"

C7_RefusedPhotoAlwaysInvalidFileType ==
    [][resp'.op \in {"submit", "put"} =>
        \A form \in Forms, up \in RefusedUploads :
          /\ submit(form, up) => (SubmitInvalidFileType /\ StoresUnchanged)
          /\ \A aid \in {resp'.id} :
                admin_required("put", aid, api_admin_item_put_form(aid, form, up))
                => (EditInvalidFileType /\ StoresUnchanged)]_vars

(***************************************************************************)
(* C7 amended: a submit whose required fields are non-empty after          *)
(* trimming, or an edit by an administrator, carrying a photo whose        *)
(* extension is not allowed fails with InvalidFileType and leaves both     *)
(* stores unchanged.                                                       *)
(***************************************************************************)
C7_RefusedPhotoInvalidFileType ==
    [][resp'.op \in {"submit", "put"} =>
        \A form \in Forms, up \in RefusedUploads :
          /\ (submit(form, up) /\ RequiredGiven(form))
             => (SubmitInvalidFileType /\ StoresUnchanged)
          /\ \A aid \in {resp'.id} :
                (/\ AdminGate = "pass"
                 /\ admin_required("put", aid, api_admin_item_put_form(aid, form, up)))
                => (EditInvalidFileType /\ StoresUnchanged)]_vars

\* An edit of an existing record was refused for its photo's type.
C7_Witness ==
    /\ resp.op = "put" /\ resp.status = 400
    /\ resp.body = "File type not allowed"
    /\ resp.before # NoRow
    /\ Get(alumni, resp.id) = resp.before

(***************************************************************************)
(* C8: the export's table has exactly one row per approved record and none *)
(* for a pending one, in the order of the names; its photos/ members are   *)
(* exactly the keys of the approved records whose photo file exists; an    *)
(* approved record whose file is missing has its row and no member.        *)
(***************************************************************************)
Approved == {r \in alumni : r.approved = 1}

C8_ExportApproved ==
    (resp.op = "download" /\ resp.status = 200) =>
        /\ ExportRows # {}
        /\ \A rows \in ExportRows :
            LET table == CsvTable(rows)
                photos == ZipPhotos(rows, files)
            IN  /\ Len(table) = Cardinality(Approved)
                /\ \A r \in Approved :
                      \E i \in DOMAIN table :
                          table[i] = <<r.id, r.fullName, r.phone, r.neighborhood, r.photo>>
                /\ \A i \in DOMAIN table : \E r \in Approved : table[i][1] = r.id
                /\ \A i, j \in DOMAIN table :
                      i < j => BinaryLeq(table[i][2], table[j][2])
                /\ {photos[i] : i \in DOMAIN photos} =
                      {r.photo : r \in {a \in Approved :
                                          a.photo # NoPhoto /\ a.photo \in files}}

\* An export of two approved records, one of them with its photo file missing.
C8_Witness ==
    /\ resp.op = "download" /\ resp.status = 200
    /\ \E r1, r2 \in Approved :
          /\ r1.photo # NoPhoto /\ r1.photo \notin files
          /\ r2.photo # NoPhoto /\ r2.photo \in files

(***************************************************************************)
(* C9 as stated: listApproved(q) returns exactly the approved records      *)
(* whose fullName contains q, trimmed, as a substring without regard to    *)
(* case (all approved records for a blank q), ordered by fullName, and     *)
(* never a pending record.                                                 *)
(* Fails: q is used as a LIKE pattern, so "_" and "%" in it match names    *)
(* that do not contain them.                                               *)
(***************************************************************************)
ContainsNoCase(s, q) ==
    \E i \in 1..(Len(s) + 1) :
        /\ i + Len(q) - 1 <= Len(s)
        /\ lower(SubSeq(s, i, i + Len(q) - 1)) = lower(q)

C9_ApprovedContainingQuery ==
    (resp.op = "approved" /\ resp.status = 200) =>
        \A q \in Queries :
            /\ ApprovedRows(q) # {}
            /\ \A rows \in ApprovedRows(q) :
                /\ {rows[i] : i \in DOMAIN rows} =
                      {r \in Approved : ContainsNoCase(r.fullName, strip(q))}
                /\ \A i, j \in DOMAIN rows :
                      i < j => BinaryLeq(rows[i].fullName, rows[j].fullName)

(***************************************************************************)
(* C10: a registration inserts an administrator exactly when its username  *)
(* equals the configured override or the user table is empty; no step      *)
(* changes the row of an existing user; and with no override configured    *)
(* the first user is an administrator and no later one is.                 *)
(***************************************************************************)
C10_BootstrapRule ==
    /\ [][/\ \A i \in 1..Len(users) : Len(users') >= i /\ users'[i] = users[i]
          /\ Len(users') # Len(users) =>
                /\ resp'.op = "register"
                /\ Len(users') = Len(users) + 1
                /\ LET new == users'[Len(users')]
                   IN  new.is_admin = 1 <=>
                          \/ envAdmin # <<>> /\ new.username = envAdmin
                          \/ Len(users) = 0]_vars
    /\ [](envAdmin = <<>> =>
            \A i \in 1..Len(users) : users[i].is_admin = 1 <=> i = 1)

\* With the override configured, a second registrant became administrator.
C10_Witness ==
    /\ resp.op = "register" /\ resp.body = "login"
    /\ envAdmin = <<"b">>
    /\ Len(users) = 2
    /\ users[1].username = <<"a">> /\ users[1].is_admin = 1
    /\ users[2].username = <<"b">> /\ users[2].is_admin = 1

(***************************************************************************)
(* C11 as stated: approve, edit and delete by an administrator with an id  *)
(* of no record answer NotFound (404), not success.  An edit refused for   *)
(* its photo's type (400) is left aside.                                   *)
(* Fails: the three handlers run their UPDATE or DELETE on no row and      *)
(* answer 200.                                                             *)
(***************************************************************************)
C11_MissingIdNotFound ==
    (/\ resp.op \in {"approve", "put", "delete"}
     /\ AdminGate = "pass"
     /\ resp.before = NoRow
     /\ resp.status # 400)
    => resp.status = 404

(***************************************************************************)
(* C12: a submit whose fullName or phone is empty after trimming answers   *)
(* with the validation error and changes nothing: no record is created,    *)
(* no id is used and no file is written, whatever photo comes with it.     *)
(***************************************************************************)
C12_BlankRequiredRefused ==
    [][resp'.op = "submit" =>
        \A form \in Forms, up \in Uploads :
          (submit(form, up) /\ ~RequiredGiven(form))
          => /\ resp'.status = 302 /\ resp'.body = "submit"
             /\ resp'.flash = "Name and phone required."
             /\ alumni' = alumni /\ nextId' = nextId /\ files' = files]_vars

\* A submission was refused for a blank required field.
C12_Witness ==
    /\ resp.op = "submit"
    /\ resp.flash = "Name and phone required."
    /\ resp.id = 0

(***************************************************************************)
(* C13 as stated: in every reachable state, the intermediate states of     *)
(* requests in flight included, every record with a photo key refers to a  *)
(* file that exists.                                                       *)
(* Fails: an edit with a photo unlinks the old file before its UPDATE, and *)
(* a delete unlinks the file before its DELETE, so between the two         *)
(* statements the record refers to a missing file.                         *)
(***************************************************************************)
C13_NoDanglingPhoto ==
    \A r \in alumni : r.photo # NoPhoto => r.photo \in files

(***************************************************************************)
(* C14 as stated: once every request has completed, every file in the     *)
(* upload folder is the photo of some record.                              *)
(* Fails: an edit with a photo for an id whose record is gone saves its    *)
(* file and updates no row; two edits of one record in flight together     *)
(* each unlink the same old file and one of the new files is left.         *)
(***************************************************************************)
AllCompleted == \A w \in Workers : threads[w] = NoRequest

C14_NoOrphanFile ==
    AllCompleted => \A f \in files : \E r \in alumni : r.photo = f

(***************************************************************************)
(* C15 as stated: two uploads never receive the same stored key, so no two *)
(* records refer to the same file.                                         *)
(* Fails: the key is the clock reading and the sanitised file name, so two *)
(* uploads of one name at one clock reading share a key.                   *)
(***************************************************************************)
C15_DistinctStoredKeys ==
    \A r1, r2 \in alumni :
        (r1.id # r2.id /\ r1.photo # NoPhoto) => r1.photo # r2.photo

(***************************************************************************)
(* C16: what listPending returns is exactly the records with approved = 0, *)
(* each once, a record created later never after one created earlier, and  *)
(* no record of it is in any listApproved; a record approved or deleted is *)
(* in no listPending from that step on.                                    *)
(***************************************************************************)
Pending == {r \in alumni : r.approved = 0}

C16_PendingNewestFirst ==
    /\ [](resp.op = "pending" /\ resp.status = 200 =>
            /\ PendingRows # {}
            /\ \A rows \in PendingRows :
                /\ {rows[i] : i \in DOMAIN rows} = Pending
                /\ Len(rows) = Cardinality(Pending)
                /\ \A i, j \in DOMAIN rows :
                      i < j => rows[i].created_at >= rows[j].created_at
                /\ \A q \in Queries : \A listed \in ApprovedRows(q) :
                      \A i \in DOMAIN rows, j \in DOMAIN listed :
                          rows[i].id # listed[j].id)
    /\ [][(resp'.op \in {"approve", "delete"} /\ resp'.status = 200) =>
            \A rows \in PendingRows' :
                \A i \in DOMAIN rows : rows[i].id # resp'.id]_vars

\* A listing of two pending records created at different times.
C16_Witness ==
    /\ resp.op = "pending" /\ resp.status = 200
    /\ \E r1, r2 \in Pending : r1.created_at < r2.created_at

(***************************************************************************)
(* C17 as stated: an edit with a new photo saves the new file, updates the *)
(* record, and only then deletes the old file: in no state of an edit in   *)
(* flight is the old file (another key than the new one) already removed   *)
(* while the record still refers to it.                                    *)
(* Fails: the handler unlinks the old file and then runs its UPDATE.       *)
(***************************************************************************)
C17_OldPhotoDeletedAfterUpdate ==
    \A w \in Workers :
        LET t == threads[w]
        IN  (t.op = "put" /\ t.pc = "update" /\ t.old # NoPhoto /\ t.old # t.photo)
            => ~(/\ SelectById(alumni, t.aid) # NoRow
                 /\ SelectById(alumni, t.aid).photo = t.old
                 /\ t.old \notin files)

(***************************************************************************)
(* C18 as stated: a delete removes the row first and the photo file        *)
(* afterwards: in no state of a delete in flight does the row still exist  *)
(* while that delete has already removed its file.                         *)
(* Fails: the handler unlinks the file and then runs DELETE FROM alumni.   *)
(***************************************************************************)
C18_RowDeletedBeforePhoto ==
    \A w \in Workers :
        LET t == threads[w]
        IN  (t.op = "delete" /\ t.pc = "delete" /\ t.old # NoPhoto)
            => ~(/\ SelectById(alumni, t.aid) # NoRow
                 /\ SelectById(alumni, t.aid).photo = t.old
                 /\ t.old \notin files)

(***************************************************************************)
(* C19: an admin-only request of a client that is not logged in, or whose  *)
(* user is no administrator, changes neither table nor any file, and is    *)
(* answered with the redirect to the login page, which carries no record.  *)
(***************************************************************************)
C19_RefusedBeforeAnyEffect ==
    [][(/\ resp'.op \in AdminOps
        /\ session.user_id = 0 \/ ~IsAdminRow(session.user_id))
       => /\ alumni' = alumni /\ nextId' = nextId /\ files' = files
          /\ users' = users
          /\ resp'.status = 302 /\ resp'.body = "login"
          /\ resp'.before = NoRow]_vars

\* A logged-in user who is no administrator asked to delete a record that has
\* a photo: the record and its file are still there.
C19_Witness ==
    /\ resp.op = "delete" /\ resp.status = 302
    /\ session.user_id # 0 /\ ~IsAdminRow(session.user_id)
    /\ Get(alumni, resp.id) # NoRow
    /\ Get(alumni, resp.id).photo # NoPhoto
    /\ Get(alumni, resp.id).photo \in files

(***************************************************************************)
(* C20 as stated: in every reachable state every record has a non-empty    *)
(* fullName and a non-empty phone.                                         *)
(* Fails: an edit stores the trimmed fields it is sent without checking    *)
(* them, so a blank or omitted fullName or phone empties the field.        *)
(***************************************************************************)
C20_RequiredFieldsNonEmpty ==
    \A r \in alumni : r.fullName # <<>> /\ r.phone # <<>>

(***************************************************************************)
(* C21: approval is monotonic.  In every step a record with approved = 1   *)
(* is either deleted or still has approved = 1, whatever the request, and  *)
(* an edit leaves the approved flag of every record as it was.             *)
(***************************************************************************)
C21_ApprovalMonotonic ==
    [][alumni' # alumni =>
        \A r \in alumni :
            LET now == Get(alumni', r.id)
            IN  /\ (r.approved = 1 /\ now # NoRow) => now.approved = 1
                /\ resp'.op = "put" => (now # NoRow /\ now.approved = r.approved)]_vars

\* An approved record was edited, with a new photo, and is still approved.
C21_Witness ==
    /\ resp.op = "put" /\ resp.status = 200
    /\ resp.before # NoRow
    /\ resp.before.approved = 1
    /\ Get(alumni, resp.id) # NoRow
    /\ Get(alumni, resp.id).approved = 1
    /\ Get(alumni, resp.id).photo # resp.before.photo
    /\ Get(alumni, resp.id).fullName # resp.before.fullName

(***************************************************************************)
(* C22 as stated: with no override configured, at most one user is ever    *)
(* an administrator, also when two registrations with different usernames  *)
(* are in flight together.                                                 *)
(* Fails: both registrations count zero users before either inserts, and   *)
(* both insert their row with is_admin = 1.                                *)
(***************************************************************************)
C22_AtMostOneBootstrapAdmin ==
    envAdmin = <<>> =>
        Cardinality({i \in 1..Len(users) : users[i].is_admin = 1}) <= 1

(***************************************************************************)
(* C23 as stated: an edit by an administrator that carries an allowed      *)
(* photo and names an id of no record leaves the upload folder as it was.  *)
(* Fails: the handler saves the file before it looks the row up, and its   *)
(* UPDATE of no row leaves the file in the folder.                         *)
(***************************************************************************)
C23_EditOfMissingIdStoresNothing ==
    [][(resp'.op = "put" /\ AdminGate = "pass" /\ Get(alumni, resp'.id) = NoRow) =>
        \A aid \in {resp'.id}, form \in Forms, up \in AllowedUploads :
          admin_required("put", aid, api_admin_item_put_form(aid, form, up))
          => files' = files]_vars
====
